---- MODULE Spec2Model ----
(***************************************************************************)
(* Model of the Jellyfin adapter of Posterr                                *)
(* (classes/mediaservers/jellyfin.js, class JellyfinMS).                   *)
(*                                                                         *)
(* JavaScript values are records [t, n, s]: t is the type tag, n the       *)
(* numeric payload, s the string payload as a sequence of one-character    *)
(* strings.  Objects received from the server are records of such values.  *)
(***************************************************************************)
EXTENDS Integers, Sequences, FiniteSets

(* ----------------------------------------------------------------------- *)
(* JavaScript values                                                       *)
(* ----------------------------------------------------------------------- *)
Undef == [t |-> "undefined", n |-> 0, s |-> <<>>]
Null == [t |-> "null", n |-> 0, s |-> <<>>]
NaN == [t |-> "nan", n |-> 0, s |-> <<>>]
Num(k) == [t |-> "number", n |-> k, s |-> <<>>]
Str(chars) == [t |-> "string", n |-> 0, s |-> chars]
Bool(b) == [t |-> "boolean", n |-> IF b THEN 1 ELSE 0, s |-> <<>>]

\* ToBoolean: undefined, null, NaN, 0, '' and false are falsy.
Truthy(v) ==
  CASE v.t = "undefined" -> FALSE
    [] v.t = "null" -> FALSE
    [] v.t = "nan" -> FALSE
    [] v.t = "number" -> v.n # 0
    [] v.t = "string" -> v.s # <<>>
    [] v.t = "boolean" -> v.n = 1
    [] OTHER -> TRUE

\* a || b
Or(a, b) == IF Truthy(a) THEN a ELSE b

\* a && b
And(a, b) == IF Truthy(a) THEN b ELSE a

\* v == null (loose): true of null and undefined only.
IsNullish(v) == v.t \in {"undefined", "null"}

\* a === b on primitives.
StrictEq(a, b) == a.t # "nan" /\ a = b

Digits == <<"0", "1", "2", "3", "4", "5", "6", "7", "8", "9">>

IsDigit(c) == \E i \in 1..10 : Digits[i] = c

DigitVal(c) == (CHOOSE i \in 1..10 : Digits[i] = c) - 1

RECURSIVE DigitsToNat(_)
DigitsToNat(chars) ==
  IF chars = <<>> THEN 0
  ELSE 10 * DigitsToNat(SubSeq(chars, 1, Len(chars) - 1)) + DigitVal(chars[Len(chars)])

AllDigits(chars) == chars # <<>> /\ \A i \in 1..Len(chars) : IsDigit(chars[i])

\* StringToNumber on the strings that occur: '' is 0, an optionally signed
\* decimal integer is its value, anything else is NaN.
StringToNumber(chars) ==
  IF chars = <<>> THEN Num(0)
  ELSE IF AllDigits(chars) THEN Num(DigitsToNat(chars))
  ELSE IF chars[1] = "-" /\ AllDigits(Tail(chars)) THEN Num(0 - DigitsToNat(Tail(chars)))
  ELSE NaN

\* Number(v)
ToNumber(v) ==
  CASE v.t = "undefined" -> NaN
    [] v.t = "null" -> Num(0)
    [] v.t = "nan" -> NaN
    [] v.t = "number" -> v
    [] v.t = "boolean" -> Num(v.n)
    [] v.t = "string" -> StringToNumber(v.s)
    [] OTHER -> NaN

RECURSIVE NatToDigits(_)
NatToDigits(k) ==
  IF k < 10 THEN <<Digits[k + 1]>>
  ELSE NatToDigits(k \div 10) \o <<Digits[(k % 10) + 1]>>

\* String(v), as a template literal interpolates it.
ToString(v) ==
  CASE v.t = "string" -> v.s
    [] v.t = "number" -> IF v.n < 0 THEN <<"-">> \o NatToDigits(0 - v.n) ELSE NatToDigits(v.n)
    [] v.t = "nan" -> <<"N", "a", "N">>
    [] v.t = "null" -> <<"n", "u", "l", "l">>
    [] v.t = "boolean" -> IF v.n = 1 THEN <<"t", "r", "u", "e">> ELSE <<"f", "a", "l", "s", "e">>
    [] OTHER -> <<"u", "n", "d", "e", "f", "i", "n", "e", "d">>

UpperCase == <<"A", "B", "C", "D", "E", "F", "G", "H", "I", "J", "K", "L", "M",
               "N", "O", "P", "Q", "R", "S", "T", "U", "V", "W", "X", "Y", "Z">>

LowerCase == <<"a", "b", "c", "d", "e", "f", "g", "h", "i", "j", "k", "l", "m",
               "n", "o", "p", "q", "r", "s", "t", "u", "v", "w", "x", "y", "z">>

\* String.prototype.toLowerCase
toLowerCase(chars) ==
  [i \in 1..Len(chars) |->
     IF \E k \in 1..26 : UpperCase[k] = chars[i]
     THEN LowerCase[CHOOSE k \in 1..26 : UpperCase[k] = chars[i]]
     ELSE chars[i]]

\* Characters encodeURIComponent leaves alone besides letters and digits.
UnreservedMarks == {"-", "_", ".", "!", "~", "*", "'", "(", ")"}

IsUnreserved(c) ==
  \/ IsDigit(c)
  \/ \E k \in 1..26 : UpperCase[k] = c \/ LowerCase[k] = c
  \/ c \in UnreservedMarks

\* Percent escapes of the other ASCII characters that occur in identifiers.
PercentEscape(c) ==
  CASE c = " " -> <<"%", "2", "0">>
    [] c = "#" -> <<"%", "2", "3">>
    [] c = "%" -> <<"%", "2", "5">>
    [] c = "&" -> <<"%", "2", "6">>
    [] c = "+" -> <<"%", "2", "B">>
    [] c = "/" -> <<"%", "2", "F">>
    [] c = ":" -> <<"%", "3", "A">>
    [] c = "=" -> <<"%", "3", "D">>
    [] c = "?" -> <<"%", "3", "F">>

RECURSIVE EncodeChars(_)
EncodeChars(chars) ==
  IF chars = <<>> THEN <<>>
  ELSE (IF IsUnreserved(chars[1]) THEN <<chars[1]>> ELSE PercentEscape(chars[1]))
       \o EncodeChars(Tail(chars))

encodeURIComponent(v) == EncodeChars(ToString(v))

(* ----------------------------------------------------------------------- *)
(* Time and image helpers                                                  *)
(* ----------------------------------------------------------------------- *)
TicksPerMs == 10000

\* _ticksToMs(ticks): null when ticks is falsy and not the number 0, null when
\* it is not numeric, otherwise floor(ticks / 10000).
_ticksToMs(ticks) ==
  IF ~Truthy(ticks) /\ ~StrictEq(ticks, Num(0)) THEN Null
  ELSE IF ToNumber(ticks).t = "nan" THEN Null
  ELSE Num(ToNumber(ticks).n \div TicksPerMs)

ImagePrefix == <<"/", "j", "e", "l", "l", "y", "f", "i", "n", "/", "i", "m", "a", "g", "e", "/">>

TypeParam == <<"?", "t", "y", "p", "e", "=">>

MaxWidthParam == <<"?", "m", "a", "x", "W", "i", "d", "t", "h", "=">>

Primary == Str(<<"P", "r", "i", "m", "a", "r", "y">>)

Backdrop == Str(<<"B", "a", "c", "k", "d", "r", "o", "p">>)

\* _imageUrl(itemId, type = 'Primary', maxWidth)
_imageUrl(itemId, type, maxWidth) ==
  LET kind == IF type.t = "undefined" THEN Primary ELSE type
      qs == IF Truthy(maxWidth) THEN MaxWidthParam \o ToString(maxWidth) ELSE <<>>
  IN Str(ImagePrefix \o encodeURIComponent(itemId) \o TypeParam
         \o encodeURIComponent(kind) \o qs)

(* ----------------------------------------------------------------------- *)
(* Records received from the server                                        *)
(* ----------------------------------------------------------------------- *)
\* A nested object is a record whose t is "object"; an absent one has t
\* "undefined" (or "null") and reads as undefined in every field.
NoPlayState == [t |-> "undefined", PositionTicks |-> Undef, Position |-> Undef]

PlayStateOf(positionTicks, position) ==
  [t |-> "object", PositionTicks |-> positionTicks, Position |-> position]

NoUserData ==
  [t |-> "undefined", PlaybackPositionTicks |-> Undef, PlayState |-> NoPlayState,
   LastPlayedUserId |-> Undef]

UserDataOf(playbackPositionTicks, playState, lastPlayedUserId) ==
  [t |-> "object", PlaybackPositionTicks |-> playbackPositionTicks,
   PlayState |-> playState, LastPlayedUserId |-> lastPlayedUserId]

NoItem ==
  [t |-> "undefined", Id |-> Undef, Name |-> Undef, Type |-> Undef,
   SeriesName |-> Undef, ParentIndexNumber |-> Undef, IndexNumber |-> Undef,
   RunTimeTicks |-> Undef, RunTime |-> Undef, UserData |-> NoUserData]

NullItem == [NoItem EXCEPT !.t = "null"]

ItemOf(id, name, type, runTimeTicks, runTime, userData) ==
  [NoItem EXCEPT !.t = "object", !.Id = id, !.Name = name, !.Type = type,
                 !.RunTimeTicks = runTimeTicks, !.RunTime = runTime,
                 !.UserData = userData]

NoUser == [t |-> "undefined", Id |-> Undef]

UserOf(id) == [t |-> "object", Id |-> id]

NoClient == [t |-> "undefined", Name |-> Undef]

ClientOf(name) == [t |-> "object", Name |-> name]

NoSession ==
  [t |-> "undefined", NowPlayingItem |-> NoItem, PlayState |-> NoPlayState,
   User |-> NoUser, Client |-> NoClient, UserId |-> Undef, Id |-> Undef,
   DeviceName |-> Undef, Device |-> Undef, RemoteEndPoint |-> Undef]

NullSession == [NoSession EXCEPT !.t = "null"]

SessionOf(item, playState, user, userId) ==
  [NoSession EXCEPT !.t = "object", !.NowPlayingItem = item,
                    !.PlayState = playState, !.User = user, !.UserId = userId]

\* o.f on an object that may be absent after `o || {}` or behind `o && o.f`.
Field(o, f) == IF o.t = "object" THEN o[f] ELSE Undef

(* ----------------------------------------------------------------------- *)
(* Card mapping                                                            *)
(* ----------------------------------------------------------------------- *)
\* Math.floor in the place of Math.round.
FlooredPercent(pos, runtime) ==
  LET p == ToNumber(pos)
      r == ToNumber(runtime)
  IN IF p.t = "nan" \/ r.t = "nan" \/ r.n <= 0 THEN NaN
     ELSE Num((100 * p.n) \div r.n)

\* Math.round((pos / runtime) * 100) on numbers, runtime nonzero: the nearest
\* integer, halves rounded up.  The quotient is taken exactly.
RoundedPercent(pos, runtime) ==
  LET p == ToNumber(pos)
      r == ToNumber(runtime)
  IN IF p.t = "nan" \/ r.t = "nan" \/ r.n = 0 THEN NaN
     ELSE IF r.n > 0 THEN Num((200 * p.n + r.n) \div (2 * r.n))
     ELSE Num((0 - (200 * p.n + r.n)) \div (0 - 2 * r.n))

\* (runtime && pos) ? Math.round((pos / runtime) * 100) : 0
PercentOf(runtime, pos) ==
  IF Truthy(And(runtime, pos)) THEN RoundedPercent(pos, runtime) ELSE Num(0)

\* item.RunTimeTicks ? this._ticksToMs(item.RunTimeTicks) : (item.RunTime || null)
RuntimeOf(item) ==
  IF Truthy(Field(item, "RunTimeTicks")) THEN _ticksToMs(Field(item, "RunTimeTicks"))
  ELSE Or(Field(item, "RunTime"), Null)

\* this._ticksToMs(ps.PositionTicks) || (ps.Position != null ? ps.Position : null)
PosMsOf(ps) ==
  Or(_ticksToMs(Field(ps, "PositionTicks")),
     IF ~IsNullish(Field(ps, "Position")) THEN Field(ps, "Position") ELSE Null)

\* item.Type === 'Movie' ? 'movie' : (item.Type === 'Episode' ? 'episode' : '')
ThemeOf(type) ==
  IF type = Str(<<"M", "o", "v", "i", "e">>) THEN Str(<<"m", "o", "v", "i", "e">>)
  ELSE IF type = Str(<<"E", "p", "i", "s", "o", "d", "e">>)
       THEN Str(<<"e", "p", "i", "s", "o", "d", "e">>)
  ELSE Str(<<>>)

\* (item.Type || '').toLowerCase() raises a TypeError unless the operand is a
\* string; reading a property of null or undefined raises one too.
LowerCaseThrows(type) == Or(type, Str(<<>>)).t # "string"

SessionThrows(session) ==
  \/ session.t # "object"
  \/ LowerCaseThrows(Field(session.NowPlayingItem, "Type"))

\* The card built by the try block of _mapSessionToCard.
SessionCard(session) ==
  LET item == session.NowPlayingItem
      ps == session.PlayState
      user == session.User
      posMs == PosMsOf(ps)
      runtime == RuntimeOf(item)
      id == Field(item, "Id")
      clientName == And(Bool(session.Client.t = "object"), Field(session.Client, "Name"))
      percent == PercentOf(runtime, posMs)
  IN [title |-> Or(Field(item, "Name"), Str(<<>>)),
      mediaType |-> Str(toLowerCase(Or(Field(item, "Type"), Str(<<>>)).s)),
      seriesTitle |-> Or(Field(item, "SeriesName"), Null),
      episodeName |-> Or(Field(item, "Name"), Null),
      season |-> Or(Field(item, "ParentIndexNumber"), Null),
      episode |-> Or(Field(item, "IndexNumber"), Null),
      runtimeMs |-> runtime,
      progressMs |-> posMs,
      progressPercent |-> percent,
      playerName |-> Or(Or(session.DeviceName, clientName), Null),
      playerIP |-> Or(session.RemoteEndPoint, Null),
      playerDevice |-> Or(Or(session.Device, clientName), Null),
      itemId |-> Or(id, Null),
      sessionId |-> Or(session.Id, Null),
      userId |-> Or(Or(session.UserId, Field(user, "Id")), Null),
      posterUrl |-> IF Truthy(id) THEN _imageUrl(id, Primary, Undef) ELSE Null,
      backdropUrl |-> IF Truthy(id) THEN _imageUrl(id, Backdrop, Undef) ELSE Null,
      __raw |-> session,
      progress |-> percent,
      theme |-> ThemeOf(Field(item, "Type"))]

\* _mapSessionToCard(session): the card, or null when building it raised.
_mapSessionToCard(session) ==
  IF SessionThrows(session) THEN Null ELSE SessionCard(session)

\* The arrow function GetOnDemand maps over the items raises a TypeError on a
\* null or undefined item and on a truthy Type that is not a string.
ItemThrows(it) == it.t # "object" \/ LowerCaseThrows(it.Type)

\* (it.UserData && it.UserData.PlaybackPositionTicks) ? ticksToMs(...) :
\* (it.UserData && it.UserData.PlayState && it.UserData.PlayState.Position
\*    ? it.UserData.PlayState.Position : null)
ResumeMsOf(it) ==
  LET ud == it.UserData
  IN IF Truthy(Field(ud, "PlaybackPositionTicks"))
     THEN _ticksToMs(Field(ud, "PlaybackPositionTicks"))
     ELSE IF ud.t = "object" /\ Truthy(Field(ud.PlayState, "Position"))
          THEN Field(ud.PlayState, "Position")
          ELSE Null

\* The card the arrow function of GetOnDemand returns for one item.
ItemCard(it) ==
  LET runtime == RuntimeOf(it)
      resumeMs == ResumeMsOf(it)
  IN [title |-> Or(it.Name, Str(<<>>)),
      mediaType |-> Str(toLowerCase(Or(it.Type, Str(<<>>)).s)),
      seriesTitle |-> Or(it.SeriesName, Null),
      episodeName |-> Or(it.Name, Null),
      season |-> Or(it.ParentIndexNumber, Null),
      episode |-> Or(it.IndexNumber, Null),
      itemId |-> Or(it.Id, Null),
      posterUrl |-> IF Truthy(it.Id) THEN _imageUrl(it.Id, Primary, Undef) ELSE Null,
      backdropUrl |-> IF Truthy(it.Id) THEN _imageUrl(it.Id, Backdrop, Undef) ELSE Null,
      runtimeMs |-> runtime,
      resumePositionMs |-> resumeMs,
      resumePercent |-> PercentOf(runtime, resumeMs),
      theme |-> ThemeOf(it.Type),
      userId |-> IF Truthy(Field(it.UserData, "LastPlayedUserId"))
                 THEN Field(it.UserData, "LastPlayedUserId") ELSE Null,
      __raw |-> it]

(* ----------------------------------------------------------------------- *)
(* Completions, replies and the two public methods                         *)
(* ----------------------------------------------------------------------- *)
\* How a block of code ends: it returns a value or it raises.
Return(v) == [kind |-> "return", value |-> v]

Throw == [kind |-> "throw", value |-> <<>>]

\* The body with no catch clause around it.
NoCatch(body, fallback) == body

\* try { body } catch (err) { return fallback; }
TryCatch(body, fallback) == IF body.kind = "throw" THEN Return(fallback) ELSE body

\* resp.data: absent ("empty"), an array ("list"), an object with an Items
\* array ("wrapped") or an object without Items ("object").
EmptyData == [shape |-> "empty", Items |-> <<>>]

ObjectData == [shape |-> "object", Items |-> <<>>]

ListData(list) == [shape |-> "list", Items |-> list]

WrappedData(list) == [shape |-> "wrapped", Items |-> list]

\* What client.get settles with: a response, or a rejection (network error,
\* timeout, non-success status).
Response(data) == [ok |-> TRUE, data |-> data]

Failure == [ok |-> FALSE, data |-> EmptyData]

\* hideUser === true || hideUser === 'true'
HideUserSet(hideUser) ==
  hideUser = Bool(TRUE) \/ hideUser = Str(<<"t", "r", "u", "e">>)

\* c.userId = null in the place of delete c.userId.
NullUserId(c) == [c EXCEPT !.userId = Null]

\* delete c.userId
DeleteUserId(c) == [f \in (DOMAIN c) \ {"userId"} |-> c[f]]

\* The try block of GetNowScreening once the /Sessions fetch has settled.
NowScreeningBody(reply, hideUser) ==
  IF ~reply.ok THEN Throw
  ELSE IF reply.data.shape \in {"object", "wrapped"} THEN Throw
  ELSE LET sessions == reply.data.Items
           mapped == [i \in 1..Len(sessions) |-> _mapSessionToCard(sessions[i])]
           cards == SelectSeq(mapped, LAMBDA c : c # Null)
       IN Return(IF HideUserSet(hideUser)
                 THEN [i \in 1..Len(cards) |-> DeleteUserId(cards[i])]
                 ELSE cards)

DefaultNumberOnDemand == 20

FallbackLimit == 30

MaxLimit == 200

\* numberOnDemand = 20 as a default parameter, then
\* Math.min(200, Number(numberOnDemand) || 30)
LimitOf(numberOnDemand) ==
  LET given == IF numberOnDemand.t = "undefined" THEN Num(DefaultNumberOnDemand)
               ELSE numberOnDemand
      wanted == Or(ToNumber(given), Num(FallbackLimit))
  IN Num(IF wanted.n < MaxLimit THEN wanted.n ELSE MaxLimit)

\* (resp.data && resp.data.Items) ? resp.data.Items : (resp.data || [])
ExtractItems(data) ==
  CASE data.shape = "empty" -> [isList |-> TRUE, list |-> <<>>]
    [] data.shape = "list" -> [isList |-> TRUE, list |-> data.Items]
    [] data.shape = "wrapped" -> [isList |-> TRUE, list |-> data.Items]
    [] OTHER -> [isList |-> FALSE, list |-> <<>>]

\* (!items || items.length === 0)
NoItems(items) == items.isList /\ Len(items.list) = 0

\* Array.prototype.slice(0, end)
Slice(cards, end) ==
  LET stop == IF end < 0 THEN (IF Len(cards) + end < 0 THEN 0 ELSE Len(cards) + end)
              ELSE (IF end < Len(cards) THEN end ELSE Len(cards))
  IN SubSeq(cards, 1, stop)

\* (items || []).map(it => card) and cards.slice(0, limit)
MapAndSlice(items, lim) ==
  IF ~items.isList THEN Throw
  ELSE IF \E i \in 1..Len(items.list) : ItemThrows(items.list[i]) THEN Throw
  ELSE Return(Slice([i \in 1..Len(items.list) |-> ItemCard(items.list[i])], lim.n))

(* ----------------------------------------------------------------------- *)
(* Inputs                                                                  *)
(* ----------------------------------------------------------------------- *)
\* Longest list of hand-picked records in a reply.
MaxRecords == 2

\* How far the longest reply exceeds the largest limit.
Excess == 3

SeqsFromTo(S, lo, hi) == UNION {[1..k -> S] : k \in lo..hi}

Movie == Str(<<"M", "o", "v", "i", "e">>)

Episode == Str(<<"E", "p", "i", "s", "o", "d", "e">>)

Id42 == Str(<<"4", "2">>)

IdAB == Str(<<"a", " ", "b">>)

User1 == Str(<<"u", "1">>)

TickValues ==
  {Undef, Num(0), Num(5000), Num(300000000), Num(900000000), Str(<<"x">>),
   Str(<<"2", "0", "0", "0", "0">>)}

RunTimeTickValues == {Undef, Num(5000), Num(600000000)}

RunTimeValues == {Undef, Num(1000)}

PositionValues == {Undef, Num(0), Num(5), Num(1234)}

PlayStates ==
  {NoPlayState} \cup {PlayStateOf(pt, p) : pt \in TickValues, p \in PositionValues}

\* Sessions that differ in their timing fields, sent one at a time.
SingleSessions ==
  {SessionOf(ItemOf(Id42, Str(<<"X">>), Movie, rtt, rt, NoUserData), ps, NoUser, uid) :
     rtt \in RunTimeTickValues, rt \in RunTimeValues, ps \in PlayStates,
     uid \in {Undef, User1}}

GoodSessionA ==
  SessionOf(ItemOf(Id42, Str(<<"X">>), Movie, Num(600000000), Undef, NoUserData),
            PlayStateOf(Num(300000000), Undef), NoUser, User1)

GoodSessionB ==
  SessionOf(ItemOf(IdAB, Str(<<"Y">>), Episode, Undef, Num(1000), NoUserData),
            PlayStateOf(Undef, Num(5)), UserOf(User1), Undef)

IdleSession == SessionOf(NoItem, NoPlayState, NoUser, Undef)

WrongTypedSession ==
  SessionOf(ItemOf(Id42, Str(<<"Z">>), Num(5), Undef, Undef, NoUserData),
            NoPlayState, NoUser, User1)

\* Sessions that replies combine: well-formed ones and malformed ones.
ListSessions == {GoodSessionA, GoodSessionB, IdleSession, NullSession, WrongTypedSession}

SessionLists ==
  {<<>>} \cup {<<s>> : s \in SingleSessions} \cup SeqsFromTo(ListSessions, 2, MaxRecords)

SessionReplies ==
  {Failure, Response(EmptyData), Response(ObjectData), Response(WrappedData(<<GoodSessionA>>))}
    \cup {Response(ListData(l)) : l \in SessionLists}

HideUserValues ==
  {Undef, Bool(TRUE), Bool(FALSE), Str(<<"t", "r", "u", "e">>),
   Str(<<"f", "a", "l", "s", "e">>)}

\* Items that differ in their timing fields, sent one at a time.
SingleItems ==
  {ItemOf(Id42, Str(<<"X">>), Movie, rtt, rt,
          UserDataOf(ppt, IF p = Undef THEN NoPlayState ELSE PlayStateOf(Undef, p), User1)) :
     rtt \in RunTimeTickValues, rt \in RunTimeValues,
     ppt \in {Undef, Num(0), Num(5000), Num(300000000), Num(900000000)},
     p \in {Undef, Num(5)}}

GoodItemA ==
  ItemOf(Id42, Str(<<"X">>), Movie, Num(600000000), Undef,
         UserDataOf(Num(300000000), NoPlayState, User1))

GoodItemB == ItemOf(IdAB, Str(<<"Y">>), Episode, Undef, Num(1000), NoUserData)

WrongTypedItem == ItemOf(Id42, Str(<<"Z">>), Num(5), Undef, Undef, NoUserData)

\* Items that replies combine: well-formed ones and malformed ones.
ListItems == {GoodItemA, GoodItemB, NullItem, WrongTypedItem}

\* A reply that ignores the requested limit: more items than the largest one.
LongItemList ==
  [i \in 1..(MaxLimit + Excess) |->
     ItemOf(Str(NatToDigits(i)), Str(<<"L">>), Movie, Num(600000000), Undef, NoUserData)]

ItemLists ==
  {<<>>, LongItemList} \cup {<<it>> : it \in SingleItems}
    \cup SeqsFromTo(ListItems, 2, MaxRecords)

ItemReplies ==
  {Failure, Response(EmptyData), Response(ObjectData)}
    \cup {Response(ListData(l)) : l \in ItemLists}
    \cup {Response(WrappedData(l)) : l \in ItemLists}

\* numberOnDemand as callers pass it; undefined is the omitted argument.
CountValues ==
  {Undef, Null, Num(0), Num(0 - 1), Num(1), Num(2), Num(10), Num(MaxLimit),
   Num(MaxLimit + 300), Str(<<"a", "b", "c">>), Str(<<"2">>)}

\* opts.userId as the constructor receives it.
UserIdOptions == {Undef, Str(<<>>), Str(<<"u", " ", "1">>)}

ImageIds == {Id42, IdAB, Str(<<"a", "?", "b", "&", "c">>), Num(7)}

ImageTypes == {Undef, Primary, Backdrop}

MaxWidthValues == {Undef, Num(0), Num(300), Str(<<"6", "4", "0">>)}

(* ----------------------------------------------------------------------- *)
(* State                                                                   *)
(* ----------------------------------------------------------------------- *)
VARIABLES
  userId,    \* this.userId
  pc,        \* where the running call stands
  call,      \* the running call: the method and its arguments
  limit,     \* const limit of GetOnDemand
  requests,  \* the requests the call has sent through this.client, in order
  replies,   \* what those requests settled with, in order
  outcome,   \* "none", "returned" or "raised"
  result     \* the value the call returned

vars == <<userId, pc, call, limit, requests, replies, outcome, result>>

NoCall ==
  [op |-> "none", hideUser |-> Undef, numberOnDemand |-> Undef,
   itemId |-> Undef, type |-> Undef, maxWidth |-> Undef]

\* constructor(opts): this.userId = opts.userId || null
Init ==
  /\ \E given \in UserIdOptions : userId = Or(given, Null)
  /\ pc = "idle"
  /\ call = NoCall
  /\ limit = Undef
  /\ requests = <<>>
  /\ replies = <<>>
  /\ outcome = "none"
  /\ result = <<>>

SessionsRequest == [endpoint |-> "Sessions", user |-> <<>>, Limit |-> Undef]

\* `/Users/${encodeURIComponent(this.userId)}/Items/Resume`, { params: { Limit: limit } }
ResumeRequest(lim) ==
  [endpoint |-> "Resume", user |-> encodeURIComponent(userId), Limit |-> lim]

\* '/Items/Latest', { params: { Limit: limit } }
LatestRequest(lim) == [endpoint |-> "Latest", user |-> <<>>, Limit |-> lim]

\* The call ends: it returns the completion's value or raises to the caller.
Finish(completion) ==
  /\ pc' = "done"
  /\ outcome' = IF completion.kind = "return" THEN "returned" ELSE "raised"
  /\ result' = completion.value

\* GetNowScreening up to its await.
CallGetNowScreening(h) ==
  /\ pc = "idle"
  /\ pc' = "awaitSessions"
  /\ call' = [NoCall EXCEPT !.op = "GetNowScreening", !.hideUser = h]
  /\ requests' = <<SessionsRequest>>
  /\ UNCHANGED <<userId, limit, replies, outcome, result>>

\* GetNowScreening from the settling of the /Sessions fetch to its return.
SessionsSettles(reply) ==
  /\ pc = "awaitSessions"
  /\ replies' = Append(replies, reply)
  /\ Finish(TryCatch(NowScreeningBody(reply, call.hideUser), <<>>))
  /\ UNCHANGED <<userId, call, limit, requests>>

\* GetOnDemand up to its first await: the resume fetch when this.userId is
\* set, otherwise the latest fetch, items being empty.
CallGetOnDemand(n) ==
  /\ pc = "idle"
  /\ call' = [NoCall EXCEPT !.op = "GetOnDemand", !.numberOnDemand = n]
  /\ limit' = LimitOf(n)
  /\ IF Truthy(userId)
     THEN pc' = "awaitResume" /\ requests' = <<ResumeRequest(LimitOf(n))>>
     ELSE pc' = "awaitLatest" /\ requests' = <<LatestRequest(LimitOf(n))>>
  /\ UNCHANGED <<userId, replies, outcome, result>>

\* GetOnDemand from the settling of the resume fetch to its next await or its
\* return.
ResumeSettles(reply) ==
  /\ pc = "awaitResume"
  /\ replies' = Append(replies, reply)
  /\ IF reply.ok /\ NoItems(ExtractItems(reply.data))
     THEN /\ pc' = "awaitLatest"
          /\ requests' = Append(requests, LatestRequest(limit))
          /\ UNCHANGED <<outcome, result>>
     ELSE /\ Finish(TryCatch(IF reply.ok THEN MapAndSlice(ExtractItems(reply.data), limit)
                             ELSE Throw, <<>>))
          /\ UNCHANGED requests
  /\ UNCHANGED <<userId, call, limit>>

\* GetOnDemand from the settling of the latest fetch to its return.
LatestSettles(reply) ==
  /\ pc = "awaitLatest"
  /\ replies' = Append(replies, reply)
  /\ Finish(TryCatch(IF reply.ok THEN MapAndSlice(ExtractItems(reply.data), limit)
                     ELSE Throw, <<>>))
  /\ UNCHANGED <<userId, call, limit, requests>>

\* A call of _imageUrl(itemId, type, maxWidth).
CallImageUrl(id, type, maxWidth) ==
  /\ pc = "idle"
  /\ call' = [NoCall EXCEPT !.op = "_imageUrl", !.itemId = id, !.type = type,
                            !.maxWidth = maxWidth]
  /\ Finish(Return(_imageUrl(id, type, maxWidth)))
  /\ UNCHANGED <<userId, limit, requests, replies>>

\* The caller has its result; the next call starts with nothing kept.
NextCall ==
  /\ pc = "done"
  /\ pc' = "idle"
  /\ call' = NoCall
  /\ limit' = Undef
  /\ requests' = <<>>
  /\ replies' = <<>>
  /\ outcome' = "none"
  /\ result' = <<>>
  /\ UNCHANGED userId

Next ==
  \/ \E h \in HideUserValues : CallGetNowScreening(h)
  \/ \E reply \in SessionReplies : SessionsSettles(reply)
  \/ \E n \in CountValues : CallGetOnDemand(n)
  \/ \E reply \in ItemReplies : ResumeSettles(reply)
  \/ \E reply \in ItemReplies : LatestSettles(reply)
  \/ \E id \in ImageIds, type \in ImageTypes, maxWidth \in MaxWidthValues :
       CallImageUrl(id, type, maxWidth)
  \/ NextCall

Spec == Init /\ [][Next]_vars

(* ----------------------------------------------------------------------- *)
(* Properties                                                              *)
(* ----------------------------------------------------------------------- *)
NowScreeningDone == pc = "done" /\ call.op = "GetNowScreening"

OnDemandDone == pc = "done" /\ call.op = "GetOnDemand"

ImageUrlDone == pc = "done" /\ call.op = "_imageUrl"

\* A record the mappers can read: an object whose Type is a string or absent.
WellFormedItem(it) == it.t = "object" /\ it.Type.t \in {"string", "undefined"}

WellFormedSession(s) ==
  s.t = "object" /\ s.NowPlayingItem.Type.t \in {"string", "undefined"}

HasItems(reply) == reply.ok /\ reply.data.shape \in {"list", "wrapped"}

RawOf(cards) == [i \in 1..Len(cards) |-> cards[i].__raw]

\* C1: in GetOnDemand with a user identity configured, a failed resume fetch
\* counts as zero items: the recently-added fetch is still sent, and when it
\* returns well-formed items the call returns their cards, cut to the limit.
ResumeFailureFallsBack ==
  (OnDemandDone /\ Truthy(userId) /\ ~replies[1].ok) =>
    /\ Len(requests) = 2
    /\ requests[2].endpoint = "Latest"
    /\ (HasItems(replies[2])
          /\ \A i \in 1..Len(replies[2].data.Items) : WellFormedItem(replies[2].data.Items[i]))
         => RawOf(result) = Slice(replies[2].data.Items, limit.n)

ResumeAt == {i \in 1..Len(requests) : requests[i].endpoint = "Resume"}

LatestAt == {i \in 1..Len(requests) : requests[i].endpoint = "Latest"}

\* The resume step gave no items: its fetch failed or its payload held none.
ResumeYieldedNothing == ~replies[1].ok \/ replies[1].data.Items = <<>>

\* C2: a GetOnDemand call sends at most one resume fetch, only with a user
\* identity, then at most one recently-added fetch, which is sent exactly when
\* the resume step was skipped or yielded zero items; the cards returned come
\* from the resume items when there were some, otherwise from the
\* recently-added items.
FallbackOrder ==
  call.op = "GetOnDemand" =>
    /\ Cardinality(ResumeAt) <= 1
    /\ Cardinality(LatestAt) <= 1
    /\ ResumeAt # {} => Truthy(userId)
    /\ \A i \in ResumeAt, j \in LatestAt : i < j
    /\ pc = "done" =>
         /\ (LatestAt # {}) <=> (ResumeAt = {} \/ ResumeYieldedNothing)
         /\ LET source == IF ResumeAt # {} /\ ~ResumeYieldedNothing
                          THEN replies[1] ELSE replies[Len(replies)]
            IN \A i \in 1..Len(result) :
                 \E k \in 1..Len(source.data.Items) : result[i].__raw = source.data.Items[k]

\* C3: whatever count is passed and however many items come back, no request
\* of GetOnDemand carries a Limit above 200 and no more than 200 cards are
\* returned.
NeverAbove200 ==
  call.op = "GetOnDemand" =>
    /\ \A i \in 1..Len(requests) : requests[i].Limit.n <= 200
    /\ pc = "done" => Len(result) <= 200

\* count clamped to [0, 200], or 30 when it is unspecified or not numeric.
EffectiveCount(count) ==
  IF count.t = "number" \/ (count.t = "string" /\ ToNumber(count).t = "number")
  THEN (IF ToNumber(count).n < 0 THEN 0
        ELSE IF ToNumber(count).n > 200 THEN 200 ELSE ToNumber(count).n)
  ELSE 30

\* C4: every request of GetOnDemand asks for exactly the effective count, and
\* the call never returns more cards than the effective count.
EffectiveCountUsed ==
  call.op = "GetOnDemand" =>
    /\ \A i \in 1..Len(requests) :
         requests[i].Limit = Num(EffectiveCount(call.numberOnDemand))
    /\ pc = "done" => Len(result) <= EffectiveCount(call.numberOnDemand)

IsCard(c) == {"title", "mediaType", "itemId", "runtimeMs", "theme"} \subseteq DOMAIN c

\* What holds of a finished call of either public method.
ReturnsCards ==
  (NowScreeningDone \/ OnDemandDone) =>
    /\ outcome = "returned"
    /\ DOMAIN result = 1..Len(result)
    /\ \A i \in 1..Len(result) : IsCard(result[i])
    /\ (NowScreeningDone /\ ~replies[1].ok) => result = <<>>

\* C5: GetNowScreening and GetOnDemand never raise: whatever a fetch settles
\* with, the call either returns a sequence of cards or, after the resume
\* fetch only, goes on to its last fetch; the sequence is empty when the
\* /Sessions fetch failed.
NeverRaises ==
  /\ [](outcome # "raised" /\ ReturnsCards)
  /\ [][/\ pc = "awaitSessions" => pc' = "done"
        /\ pc = "awaitResume" => pc' \in {"awaitLatest", "done"}
        /\ pc = "awaitLatest" => pc' = "done"]_vars

NeverRaisesWitness ==
  /\ pc = "done"
  /\ call.op \in {"GetNowScreening", "GetOnDemand"}
  /\ ~replies[Len(replies)].ok
  /\ outcome = "returned"
  /\ result = <<>>

\* C6: in both pipelines the cards of the well-formed records of the reply
\* are returned in the order of the reply, whichever malformed records the
\* reply holds besides them.
MalformedAbsorbed ==
  /\ (NowScreeningDone /\ replies[1].ok /\ replies[1].data.shape = "list")
       => RawOf(result) = SelectSeq(replies[1].data.Items, WellFormedSession)
  /\ (OnDemandDone /\ HasItems(replies[Len(replies)])
        /\ limit.n >= Len(replies[Len(replies)].data.Items))
       => RawOf(result) = SelectSeq(replies[Len(replies)].data.Items, WellFormedItem)

\* The hide-user flag is set: true, or the string 'true'.
FlagSet == call.hideUser \in {Bool(TRUE), Str(<<"t", "r", "u", "e">>)}

\* The cards of the sessions of the reply, before the flag is applied.
PlainCards ==
  IF replies[1].ok /\ replies[1].data.shape \in {"list", "empty"}
  THEN LET sessions == SelectSeq(replies[1].data.Items, WellFormedSession)
       IN [i \in 1..Len(sessions) |-> SessionCard(sessions[i])]
  ELSE <<>>

\* C7: with the hide-user flag set, no card GetNowScreening returns has a
\* userId field and every other field is as without the flag; with the flag
\* not set, every card has its userId field.
HideUserStrips ==
  NowScreeningDone =>
    /\ Len(result) = Len(PlainCards)
    /\ \A i \in 1..Len(result) :
         /\ DOMAIN result[i] =
              IF FlagSet THEN (DOMAIN PlainCards[i]) \ {"userId"} ELSE DOMAIN PlainCards[i]
         /\ \A f \in DOMAIN result[i] : result[i][f] = PlainCards[i][f]
         /\ "userId" \in DOMAIN PlainCards[i]

HideUserStripsWitness ==
  /\ NowScreeningDone
  /\ FlagSet
  /\ Len(result) = 2
  /\ \A i \in 1..2 : Truthy(PlainCards[i].userId) /\ "userId" \notin DOMAIN result[i]

\* C8: progressMs is floor(PositionTicks / 10000) whenever PlayState has a
\* numeric PositionTicks, zero and values below 10000 included, and the raw
\* Position (null when there is none) only when PositionTicks is absent.
ProgressFromTicks ==
  NowScreeningDone =>
    \A i \in 1..Len(result) :
      LET ps == result[i].__raw.PlayState
      IN /\ ps.PositionTicks.t = "number"
              => result[i].progressMs = Num(ps.PositionTicks.n \div 10000)
         /\ ps.PositionTicks.t = "undefined"
              => result[i].progressMs =
                   (IF ps.Position.t = "undefined" THEN Null ELSE ps.Position)

\* percent is 0 when runtime or position is null or zero, and otherwise the
\* integer nearest to position / runtime * 100, halves rounded up.
PercentFits(runtime, position, percent) ==
  IF runtime \in {Null, Num(0)} \/ position \in {Null, Num(0)} THEN percent = Num(0)
  ELSE /\ runtime.t = "number" /\ position.t = "number" /\ percent.t = "number"
       /\ runtime.n > 0
       /\ 2 * runtime.n * percent.n <= 200 * position.n + runtime.n
       /\ 200 * position.n + runtime.n < 2 * runtime.n * (percent.n + 1)

\* C9: on every card of either pipeline the percent field is 0 when the
\* card's runtimeMs or position is null or zero and otherwise
\* round(position / runtimeMs * 100) of the card's own fields, unclamped.
PercentOfOwnFields ==
  /\ NowScreeningDone =>
       \A i \in 1..Len(result) :
         PercentFits(result[i].runtimeMs, result[i].progressMs, result[i].progressPercent)
  /\ OnDemandDone =>
       \A i \in 1..Len(result) :
         PercentFits(result[i].runtimeMs, result[i].resumePositionMs, result[i].resumePercent)

PercentOfOwnFieldsWitness ==
  /\ OnDemandDone
  /\ Len(result) = 1
  /\ result[1].runtimeMs = Num(1000)
  /\ result[1].resumePositionMs = Num(5)
  /\ result[1].resumePercent = Num(1)

\* C10: the image reference is /jellyfin/image/{itemId}?type={kind}, followed
\* by &maxWidth={N} when a size hint N is given, so it holds exactly one '?'.
ImageReferenceForm ==
  ImageUrlDone =>
    LET kind == IF call.type = Undef THEN Primary ELSE call.type
        base == ImagePrefix \o encodeURIComponent(call.itemId)
                  \o <<"?", "t", "y", "p", "e", "=">> \o encodeURIComponent(kind)
        hint == <<"&", "m", "a", "x", "W", "i", "d", "t", "h", "=">> \o ToString(call.maxWidth)
    IN /\ result.s = IF Truthy(call.maxWidth) THEN base \o hint ELSE base
       /\ Cardinality({i \in 1..Len(result.s) : result.s[i] = "?"}) = 1
====
